---- MODULE Spec2Model ----
(***************************************************************************)
(* A model of the Parkhurst booking automation: the `book` command of      *)
(* index.js (executeBooking, validateBookingParams) and the                *)
(* BookingAutomator of src/booking.js (initialize, navigateAndLogin,       *)
(* performLogin, fillBookingForm, submitBooking,                           *)
(* handlePostSubmissionDialogs, verifyBookingSuccess, logErrorToFile,      *)
(* close, book), with the helpers of src/utils.js and src/config.js.       *)
(*                                                                         *)
(* The browser is the environment.  Every query of the page returns a      *)
(* snapshot (a sequence of elements in document order) that the            *)
(* environment chooses; every awaited browser call either returns or       *)
(* rejects.  Strings that the code takes apart (dates, times, element      *)
(* texts) are sequences of characters or of text fragments; strings that   *)
(* it only compares or concatenates are TLA+ strings.                      *)
(***************************************************************************)
EXTENDS Integers, Sequences, FiniteSets, TLC

(***************************************************************************)
(* Bounds of the model.                                                    *)
(***************************************************************************)
\* Longest page snapshot handed to a scan when the scan is checked alone.
MaxElems == 2
\* Longest page snapshot handed to a scan inside the whole booking flow.
FlowElems == 1

SeqsUpTo(S, n) == UNION { [1..k -> S] : k \in 0..n }

Min(S) == CHOOSE x \in S : \A y \in S : x <= y

(***************************************************************************)
(* Strings as character sequences.                                         *)
(***************************************************************************)
Digits == <<"0", "1", "2", "3", "4", "5", "6", "7", "8", "9">>

IsDigit(c) == \E i \in 1..10 : Digits[i] = c

DigitVal(c) == (CHOOSE i \in 1..10 : Digits[i] = c) - 1

DigitChar(n) == Digits[n + 1]

\* The flat string a character (or fragment) sequence spells.
RECURSIVE Str(_)
Str(s) == IF s = <<>> THEN "" ELSE Head(s) \o Str(Tail(s))

Pad2(n) == <<DigitChar((n \div 10) % 10), DigitChar(n % 10)>>

Pad4(n) ==
    <<DigitChar((n \div 1000) % 10), DigitChar((n \div 100) % 10),
      DigitChar((n \div 10) % 10), DigitChar(n % 10)>>

\* The number a run of decimal digits spells.
RECURSIVE DigitsVal(_)
DigitsVal(s) ==
    IF s = <<>> THEN 0
    ELSE 10 * DigitsVal(SubSeq(s, 1, Len(s) - 1)) + DigitVal(s[Len(s)])

\* The longest prefix of s made of digits.
RECURSIVE DigitPrefix(_)
DigitPrefix(s) ==
    IF s = <<>> \/ ~IsDigit(Head(s)) THEN <<>>
    ELSE <<Head(s)>> \o DigitPrefix(Tail(s))

NaN == [nan |-> TRUE, val |-> 0]

Num(n) == [nan |-> FALSE, val |-> n]

\* parseInt(s, 10): an optional sign, then the leading digits; NaN when
\* there is no leading digit.
parseInt(s) ==
    LET neg == s # <<>> /\ Head(s) = "-"
        body == IF s # <<>> /\ Head(s) \in {"-", "+"} THEN Tail(s) ELSE s
        ds == DigitPrefix(body)
    IN  IF ds = <<>> THEN NaN
        ELSE Num(IF neg THEN 0 - DigitsVal(ds) ELSE DigitsVal(ds))

(***************************************************************************)
(* The calendar behind JavaScript's Date, counted in local days since      *)
(* 1 January 1970, the epoch of Date.                                      *)
(***************************************************************************)
IsLeap(y) == (y % 4 = 0 /\ y % 100 # 0) \/ y % 400 = 0

DaysInYear(y) == IF IsLeap(y) THEN 366 ELSE 365

DaysInMonth(y, m) ==
    IF m = 2 THEN (IF IsLeap(y) THEN 29 ELSE 28)
    ELSE IF m \in {4, 6, 9, 11} THEN 30 ELSE 31

\* Leap years before year y.
LeapsBefore(y) == ((y - 1) \div 4) - ((y - 1) \div 100) + ((y - 1) \div 400)

DaysBeforeYear(y) == 365 * (y - 1970) + LeapsBefore(y) - LeapsBefore(1970)

\* Days of year y before its month with index m0 (0 = January).
RECURSIVE DaysBeforeMonth(_, _)
DaysBeforeMonth(y, m0) ==
    IF m0 = 0 THEN 0 ELSE DaysBeforeMonth(y, m0 - 1) + DaysInMonth(y, m0)

\* new Date(y, monthIndex, d): out-of-range months and days roll over.
NewDate(y, monthIndex, d) ==
    LET yy == y + (monthIndex \div 12)
        mm == monthIndex % 12
    IN  DaysBeforeYear(yy) + DaysBeforeMonth(yy, mm) + (d - 1)

RECURSIVE YearOf(_, _)
YearOf(n, y) ==
    IF n < DaysBeforeYear(y) THEN YearOf(n, y - 1)
    ELSE IF n >= DaysBeforeYear(y + 1) THEN YearOf(n, y + 1)
    ELSE y

RECURSIVE MonthOf(_, _, _)
MonthOf(rest, y, m) ==
    IF rest < DaysInMonth(y, m) THEN m ELSE MonthOf(rest - DaysInMonth(y, m), y, m + 1)

\* The civil date of day number n.
Civil(n) ==
    LET y == YearOf(n, 1970 + (n \div 366))
        rest == n - DaysBeforeYear(y)
        m == MonthOf(rest, y, 1)
    IN  [y |-> y, m |-> m, d |-> rest - DaysBeforeMonth(y, m - 1) + 1]

\* date.toISOString().split('T')[0] of the local midnight of day n: the UTC
\* date, which is the previous day where local time is ahead of UTC.
toISODate(n, aheadOfUtc) ==
    LET c == Civil(IF aheadOfUtc THEN n - 1 ELSE n)
    IN  Pad4(c.y) \o <<"-">> \o Pad2(c.m) \o <<"-">> \o Pad2(c.d)

(***************************************************************************)
(* src/utils.js                                                            *)
(***************************************************************************)
\* timeToISO(date, time): `${date}T${time}:00`.
timeToISO(date, time) == date \o <<"T">> \o time \o <<":", "0", "0">>

\* The characters encodeURIComponent escapes, among those a date, a time or
\* a space id can hold; every other character stands for itself.
Escaped == {":", "/", " ", "&", "=", "?", "+"}

PercentCode(c) ==
    CASE c = ":" -> "%3A"
      [] c = "/" -> "%2F"
      [] c = " " -> "%20"
      [] c = "&" -> "%26"
      [] c = "=" -> "%3D"
      [] c = "?" -> "%3F"
      [] c = "+" -> "%2B"

encodeURIComponent(s) ==
    [i \in 1..Len(s) |-> IF s[i] \in Escaped THEN PercentCode(s[i]) ELSE s[i]]

\* generateBookingUrl: the two timestamps are encoded, the space id is not.
generateBookingUrl(baseUrl, spaceId, date, startTime, endTime) ==
    LET startISO == Str(encodeURIComponent(timeToISO(date, startTime)))
        endISO == Str(encodeURIComponent(timeToISO(date, endTime)))
    IN  baseUrl \o "?nbend=" \o endISO \o "&nbspaces=" \o Str(spaceId)
            \o "&nbstart=" \o startISO

\* /^\d{4}-\d{2}-\d{2}$/
DateShape(s) ==
    /\ Len(s) = 10
    /\ \A i \in {1, 2, 3, 4, 6, 7, 9, 10} : IsDigit(s[i])
    /\ s[5] = "-" /\ s[8] = "-"

\* isValidDate: moment(date, 'YYYY-MM-DD', true).isValid(), a strict parse:
\* the shape, a month 1..12 and a day of that month.
isValidDate(s) ==
    /\ DateShape(s)
    /\ LET y == DigitsVal(SubSeq(s, 1, 4))
           m == DigitsVal(SubSeq(s, 6, 7))
           d == DigitsVal(SubSeq(s, 9, 10))
       IN  m \in 1..12 /\ d >= 1 /\ d <= DaysInMonth(y, m)

\* isValidTime: moment(time, 'HH:mm', true).isValid().
isValidTime(s) ==
    /\ Len(s) = 5
    /\ \A i \in {1, 2, 4, 5} : IsDigit(s[i])
    /\ s[3] = ":"
    /\ DigitsVal(SubSeq(s, 1, 2)) <= 23
    /\ DigitsVal(SubSeq(s, 4, 5)) <= 59

MinutesOfDay(s) == 60 * DigitsVal(SubSeq(s, 1, 2)) + DigitsVal(SubSeq(s, 4, 5))

\* A range check that lets every pair of times through.
AnyTimeRange(startTime, endTime) == TRUE

\* isValidTimeRange: start.isBefore(end), both on today's date.
isValidTimeRange(startTime, endTime) == MinutesOfDay(startTime) < MinutesOfDay(endTime)

\* moment(time, 'HH:mm'): that wall-clock time of today, as the minutes that
\* have passed since today's local midnight.  On a day whose clocks go
\* forward at 02:00 the hour from 02:00 does not exist and Date reads a time
\* in it as one hour later; on a day whose clocks go back at 02:00 the hour
\* from 01:00 comes twice and Date takes its first pass.
LocalToInstant(wall, clockChange) ==
    CASE clockChange = "forward" -> IF wall < 180 THEN wall ELSE wall - 60
      [] clockChange = "back" -> IF wall < 120 THEN wall ELSE wall + 60
      [] OTHER -> wall

\* The wall-clock minutes of day shown by the clocks when `instant` minutes
\* have passed since today's local midnight (fewer than none: yesterday);
\* yesterday and tomorrow have days of 1440 minutes.
InstantToLocal(instant, clockChange) ==
    LET dayLength ==
            CASE clockChange = "forward" -> 1380
              [] clockChange = "back" -> 1500
              [] OTHER -> 1440
    IN  IF instant < 0 THEN instant % 1440
        ELSE IF instant >= dayLength THEN (instant - dayLength) % 1440
        ELSE IF instant < 120 THEN instant
        ELSE CASE clockChange = "forward" -> instant + 60
               [] clockChange = "back" -> instant - 60
               [] OTHER -> instant

\* moment.format('h:mmA') of a wall-clock time given in minutes of day.
FormatHmmA(wall) ==
    LET hour == wall \div 60
        h == IF hour % 12 = 0 THEN 12 ELSE hour % 12
    IN  (IF h >= 10 THEN Pad2(h) ELSE <<DigitChar(h)>>) \o <<":">>
            \o Pad2(wall % 60) \o <<IF hour < 12 THEN "AM" ELSE "PM">>

\* formatBookingTitle: subtract and add of minutes move the instant, not the
\* wall clock; an undefined buffer takes the default of the parameter, 15.
formatBookingTitle(startTime, endTime, bufferMinutes, clockChange) ==
    LET buffer == IF bufferMinutes.def THEN bufferMinutes.val ELSE 15
        startMoment == LocalToInstant(MinutesOfDay(startTime), clockChange) - buffer
        endMoment == LocalToInstant(MinutesOfDay(endTime), clockChange) + buffer
    IN  FormatHmmA(InstantToLocal(startMoment, clockChange)) \o <<" - ">>
            \o FormatHmmA(InstantToLocal(endMoment, clockChange))

(***************************************************************************)
(* src/config.js                                                           *)
(***************************************************************************)
targetSuccessUrl == "https://parkhurst.skedda.com/booking"

otherBaseUrl == "https://staging.skedda.com/booking"

loginUrl == "https://parkhurst.skedda.com/login"

Undefined == [def |-> FALSE, val |-> 0]

Defined(n) == [def |-> TRUE, val |-> n]

\* config.facilities of the sample configuration; every configuration of
\* the runs holds this one key, with a space id of its own.
Facilities ==
    [tennis_lower |-> [spaceId |-> <<"1", "2", "4", "4", "4", "6", "6">>,
                       name |-> "Tennis - Lower Court Whole"]]

HasFacility(key) == key \in DOMAIN Facilities

\* A key in which only "@" is replaced.
ProfileKeyAtOnly(profileEmail) ==
    LET Upper(c) ==
            CASE c = "a" -> "A" [] c = "b" -> "B" [] c = "c" -> "C"
              [] c = "e" -> "E" [] c = "j" -> "J" [] c = "n" -> "N"
              [] c = "o" -> "O" [] c = "x" -> "X" [] OTHER -> c
    IN  [i \in 1..Len(profileEmail) |->
            Upper(IF profileEmail[i] = "@" THEN "_" ELSE profileEmail[i])]

\* loadProfileCredentials, line 10: profileEmail.replace(/[@.]/g, '_')
\* .toUpperCase(), on an email given character by character.
ProfileKey(profileEmail) ==
    LET Upper(c) ==
            CASE c = "a" -> "A" [] c = "b" -> "B" [] c = "c" -> "C"
              [] c = "e" -> "E" [] c = "j" -> "J" [] c = "n" -> "N"
              [] c = "o" -> "O" [] c = "x" -> "X" [] OTHER -> c
    IN  [i \in 1..Len(profileEmail) |->
            Upper(IF profileEmail[i] \in {"@", "."} THEN "_" ELSE profileEmail[i])]

\* The variables of process.env that are set, by name.
ProcessEnv ==
    { <<"PROFILE_", "J", "A", "N", "E", "_USERNAME">>,
      <<"PROFILE_", "J", "A", "N", "E", "_PASSWORD">>,
      <<"PROFILE_", "J", "O", "_", "E", "X", "_", "C", "O", "_USERNAME">>,
      <<"PROFILE_", "J", "O", "_", "E", "X", "_", "C", "O", "_PASSWORD">>,
      <<"PROFILE_", "A", "_", "B", "_", "E", "X", "_", "C", "O", "_USERNAME">>,
      <<"PROFILE_", "A", "_", "B", "_", "E", "X", "_", "C", "O", "_PASSWORD">>,
      <<"PROFILE_", "A", "N", "_", "E", "X", "_", "C", "O", "_USERNAME">> }

\* loadConfig then validateConfig: the message thrown, or <<>> when both
\* return.  file is the configuration file as found on disk.
ConfigError(file, profile) ==
    IF ~file.present THEN <<"Config file not found: ", "config.json">>
    ELSE IF profile # <<>>
            /\ <<"PROFILE_">> \o ProfileKey(profile) \o <<"_USERNAME">> \notin ProcessEnv
        THEN <<"Username not found for profile ">> \o profile
                \o <<". Expected environment variable: ", "PROFILE_">>
                \o ProfileKey(profile) \o <<"_USERNAME">>
    ELSE IF profile # <<>>
            /\ <<"PROFILE_">> \o ProfileKey(profile) \o <<"_PASSWORD">> \notin ProcessEnv
        THEN <<"Password not found for profile ">> \o profile
                \o <<". Expected environment variable: ", "PROFILE_">>
                \o ProfileKey(profile) \o <<"_PASSWORD">>
    ELSE IF ~file.sections THEN <<"Missing defaults section in config">>
    ELSE IF file.bookInAdvanceDays.def /\ file.bookInAdvanceDays.val < 0
        THEN <<"config.defaults.bookInAdvanceDays must be a non-negative number if provided">>
    ELSE <<>>

(***************************************************************************)
(* State.                                                                  *)
(***************************************************************************)
VARIABLES
    pc,             \* where the command is
    options,        \* the parsed command-line options
    configFile,     \* the configuration file on disk
    env,            \* the process environment: today, the time zone
    console,        \* the lines written to the console that carry a value
    exitCode,       \* the process exit code, -1 while running
    error,          \* the message of the exception in flight, <<>> if none
    failedAt,       \* the stage that raised it
    browser,        \* this.browser
    page,           \* this.page
    bookingUrl,     \* the deep link book() builds
    bookingTitle,   \* the title book() hands to fillBookingForm
    pageUrl,        \* the URL the code last sent the page to or read from it
    isLoggedIn,     \* the booking-form probe of navigateAndLogin
    dom,            \* the elements the page showed to the latest scan
    confirmButton,  \* submitBooking's confirmButton: an index of dom, 0 = null
    foundBy,        \* the selector or keyword that resolved it, 0 if none
    currentUrl,     \* verifyBookingSuccess: the URL read after the delay
    errorMessage,   \* verifyBookingSuccess: the message to log and throw
    verdict,        \* how the verifier classified the attempt
    pageTitle,      \* verifyBookingSuccess: the title read for the message
    errorLog,       \* the lines of booking_errors.log
    did             \* how often each kind of effect happened in this run

vars ==
    <<pc, options, configFile, env, console, exitCode, error, failedAt, browser, page,
      bookingUrl, bookingTitle, pageUrl, isLoggedIn, dom, confirmButton, foundBy, currentUrl,
      errorMessage, pageTitle, verdict, errorLog, did>>

cliVars == <<options, configFile, env, console>>

pageVars == <<browser, page, bookingUrl, bookingTitle, pageUrl, isLoggedIn>>

submitVars == <<dom, confirmButton, foundBy>>

verifyVars == <<currentUrl, errorMessage, pageTitle, verdict, errorLog>>

Effects ==
    {"launch", "close", "goto", "type", "title", "signature", "nativeClick",
     "scriptClick", "dialogs", "dialogClick", "verify", "append",
     "appendFailed"}

Bump(k) == [did EXCEPT ![k] = @ + 1]

NoDate == <<>>

NoProfile == <<>>

NotGiven == [kind |-> "undefined", s |-> <<>>]

Flag == [kind |-> "flag", s |-> <<>>]

Value(s) == [kind |-> "value", s |-> s]

(***************************************************************************)
(* index.js: the `book` command.                                           *)
(***************************************************************************)
hardcodedDefaultAdvanceDays == 15

\* /^[^\s@]+@[^\s@]+\.[^\s@]+$/ on a profile given character by character.
EmailShape(p) ==
    /\ \A i \in 1..Len(p) : p[i] # " "
    /\ Cardinality({i \in 1..Len(p) : p[i] = "@"}) = 1
    /\ LET at == CHOOSE i \in 1..Len(p) : p[i] = "@"
       IN  /\ at > 1
           /\ \E k \in (at + 2)..(Len(p) - 1) : p[k] = "."

\* executeBooking, lines 177-230: the booking date as a day number, or the
\* process.exit(1) the code takes instead.
Exit1 == [exit |-> TRUE, day |-> 0]

Day(n) == [exit |-> FALSE, day |-> n]

\* A resolution in which a days-in-advance value wins over a date.
ResolvedDateFlagWins(opts, cfgDays, today) ==
    LET parsed == parseInt(opts.bookInAdvanceDays.s)
    IN  IF opts.bookInAdvanceDays.kind = "value" /\ ~parsed.nan /\ parsed.val >= 0
        THEN Day(today + parsed.val)
        ELSE IF opts.date # NoDate /\ DateShape(opts.date)
        THEN Day(NewDate(DigitsVal(SubSeq(opts.date, 1, 4)),
                         DigitsVal(SubSeq(opts.date, 6, 7)) - 1,
                         DigitsVal(SubSeq(opts.date, 9, 10))))
        ELSE Exit1

ResolvedDate(opts, cfgDays, today) ==
    LET defaultDays ==
            IF cfgDays.def THEN cfgDays.val ELSE hardcodedDefaultAdvanceDays
        given == opts.bookInAdvanceDays
        parsed == parseInt(given.s)
        calculated ==
            IF given.kind # "undefined" THEN
                IF given.kind = "value" THEN
                    IF parsed.nan \/ parsed.val < 0 THEN Exit1
                    ELSE Day(today + parsed.val)
                ELSE Day(today + defaultDays)
            ELSE IF opts.date # NoDate THEN
                IF ~DateShape(opts.date) THEN Exit1
                ELSE Day(NewDate(DigitsVal(SubSeq(opts.date, 1, 4)),
                                 DigitsVal(SubSeq(opts.date, 6, 7)) - 1,
                                 DigitsVal(SubSeq(opts.date, 9, 10))))
            ELSE Day(today + defaultDays)
    IN  IF opts.date # NoDate /\ given.kind # "undefined" THEN Exit1
        ELSE IF calculated.exit THEN Exit1
        ELSE IF ~opts.forceDate /\ calculated.day < today THEN Exit1
        ELSE calculated

\* validateBookingParams: the errors it collects, joined; getFacility throws
\* its own message for an unknown key before the list is looked at.
ValidationError(opts) ==
    LET dateErr ==
            IF opts.date = NoDate \/ ~isValidDate(opts.date)
            THEN <<"Booking date is missing or invalid after initial processing.">>
            ELSE <<>>
        startErr ==
            IF ~isValidTime(opts.start)
            THEN <<"Invalid start time format. Use HH:MM">> ELSE <<>>
        endErr ==
            IF ~isValidTime(opts.end)
            THEN <<"Invalid end time format. Use HH:MM">> ELSE <<>>
        rangeErr ==
            IF isValidTime(opts.start) /\ isValidTime(opts.end)
               /\ ~isValidTimeRange(opts.start, opts.end)
            THEN <<"Start time must be before end time">> ELSE <<>>
    IN  IF opts.facility = "" THEN
            dateErr \o <<"Facility '' not found or not specified.">>
                \o startErr \o endErr \o rangeErr
        ELSE IF ~HasFacility(opts.facility) THEN
            <<"Facility '", opts.facility, "' not found. Available facilities: ">>
        ELSE dateErr \o startErr \o endErr \o rangeErr

\* executeBooking, lines 174-175.
LoadConfig ==
    /\ pc = "executeBooking"
    /\ LET e == ConfigError(configFile, options.profile)
       IN  IF e # <<>>
           THEN /\ error' = e
                /\ failedAt' = "config"
                /\ pc' = "commandCatch"
           ELSE /\ pc' = "resolveDate"
                /\ UNCHANGED <<error, failedAt>>
    /\ UNCHANGED <<cliVars, exitCode, pageVars, submitVars, verifyVars, did>>

\* executeBooking, lines 177-230.
ResolveDate ==
    /\ pc = "resolveDate"
    /\ \E r \in {ResolvedDate(options, configFile.bookInAdvanceDays, env.today)} :
           IF r.exit
           THEN /\ exitCode' = 1
                /\ failedAt' = "date"
                /\ pc' = "exited"
                /\ UNCHANGED options
           ELSE /\ options' = [options EXCEPT !.date = toISODate(r.day, env.aheadOfUtc)]
                /\ pc' = "validate"
                /\ UNCHANGED <<exitCode, failedAt>>
    /\ UNCHANGED <<configFile, env, console, error, pageVars, submitVars, verifyVars, did>>

\* loadConfig, lines 55-74: config.credentials once the file is read; with
\* a profile they are the values of its two variables, written ${NAME}
\* here.
Credentials(file, profile) ==
    IF profile = <<>> THEN file.credentials
    ELSE [email |-> "${PROFILE_" \o Str(ProfileKey(profile)) \o "_USERNAME}",
          password |-> "${PROFILE_" \o Str(ProfileKey(profile)) \o "_PASSWORD}"]

\* executeBooking, lines 252-262: the lines of the Booking Summary that
\* show the credentials, the request and the facility.
BookingSummary(opts, file) ==
    << <<"Email: ", Credentials(file, opts.profile).email>>,
       <<"Date: ", Str(opts.date)>>
           \o (CASE opts.bookInAdvanceDays.kind = "undefined" -> <<>>
                 [] opts.bookInAdvanceDays.kind = "flag" ->
                        <<" (calculated from ", "true", " days in advance)">>
                 [] OTHER ->
                        <<" (calculated from ", Str(opts.bookInAdvanceDays.s),
                          " days in advance)">>),
       <<"Time: ", Str(opts.start), " - ", Str(opts.end)>>,
       <<"Facility: ", file.facilities[opts.facility].name>> >>
       \o (IF opts.title # <<>> THEN << <<"Custom Title: ", Str(opts.title)>> >> ELSE <<>>)

\* executeBooking, lines 235-269: the profile check, validateBookingParams
\* and the Booking Summary.
ValidateParams ==
    /\ pc = "validate"
    /\ LET e == IF options.profile # NoProfile /\ ~EmailShape(options.profile)
                THEN <<"Invalid email format for profile">>
                ELSE ValidationError(options)
       IN  IF e # <<>>
           THEN /\ error' = e
                /\ failedAt' = "validation"
                /\ pc' = "commandCatch"
                /\ UNCHANGED console
           ELSE /\ pc' = "book"
                /\ console' = console \o BookingSummary(options, configFile)
                /\ UNCHANGED <<error, failedAt>>
    /\ UNCHANGED <<options, configFile, env, exitCode, pageVars, submitVars, verifyVars, did>>

\* The book command's catch, index.js lines 34-37.
CommandCatch ==
    /\ pc = "commandCatch"
    /\ exitCode' = 1
    /\ pc' = "exited"
    /\ console' = Append(console, <<"Booking failed: ", Str(error)>>)
    /\ UNCHANGED <<options, configFile, env, error, failedAt, pageVars, submitVars, verifyVars, did>>

\* executeBooking returns (line 281) and the process ends.
CommandReturns ==
    /\ pc = "bookReturned"
    /\ exitCode' = 0
    /\ pc' = "exited"
    /\ UNCHANGED <<cliVars, error, failedAt, pageVars, submitVars, verifyVars, did>>

(***************************************************************************)
(* Page snapshots and the scans of src/booking.js.                         *)
(***************************************************************************)
\* page.$$(selector k): the indices of the matching elements, in document
\* order.
RECURSIVE QueryAllFrom(_, _, _)
QueryAllFrom(d, k, i) ==
    IF i > Len(d) THEN <<>>
    ELSE (IF k \in d[i].sel THEN <<i>> ELSE <<>>) \o QueryAllFrom(d, k, i + 1)

QueryAll(d, k) == QueryAllFrom(d, k, 1)

\* page.$(selector k): the first match in document order, 0 for null.
QueryFirst(d, k) == IF QueryAll(d, k) = <<>> THEN 0 ELSE Head(QueryAll(d, k))

\* textContent.trim(): leading and trailing white space dropped.
RECURSIVE TrimLeft(_)
TrimLeft(t) == IF t # <<>> /\ Head(t) = " " THEN TrimLeft(Tail(t)) ELSE t

RECURSIVE TrimRight(_)
TrimRight(t) ==
    IF t # <<>> /\ t[Len(t)] = " " THEN TrimRight(SubSeq(t, 1, Len(t) - 1)) ELSE t

Trim(t) == TrimRight(TrimLeft(t))

\* toLowerCase on the fragments button texts and keywords are made of.
LowerFragment(f) ==
    CASE f \in {"Confirm", "CONFIRM"} -> "confirm"
      [] f \in {"Book", "BOOK"} -> "book"
      [] f \in {"Submit", "SUBMIT"} -> "submit"
      [] f \in {"OK", "Ok"} -> "ok"
      [] f = "Cancel" -> "cancel"
      [] OTHER -> f

toLowerCase(t) == [i \in 1..Len(t) |-> LowerFragment(t[i])]

\* String.prototype.includes for a needle of one fragment.
Includes(t, needle) == \E i \in 1..Len(t) : t[i] = needle

\* submitBooking, lines 108-114.
buttonSelectors ==
    <<".row.pt-5 .col-12 button.btn.btn-success", "button.btn.btn-success",
      "button[type=submit]", ".btn-success", ".confirm-booking">>

\* The selector sets an element can match: a success button inside the
\* layout wrapper matches selectors 1, 2 and 4, one outside it 2 and 4.
ButtonKinds == {{1, 2, 4}, {2, 4}, {3}, {4}, {5}}

ButtonElems == [sel : ButtonKinds, inViewport : BOOLEAN, disabled : BOOLEAN]

\* The inner loop of lines 122-131 over the matches of one selector.
RECURSIVE FirstQualifying(_, _)
FirstQualifying(d, matches) ==
    IF matches = <<>> THEN 0
    ELSE IF d[Head(matches)].inViewport /\ ~d[Head(matches)].disabled
        THEN Head(matches)
    ELSE FirstQualifying(d, Tail(matches))

NotResolved(phase) == [btn |-> 0, phase |-> phase, k |-> 0]

RECURSIVE StructuralFrom(_, _)
StructuralFrom(d, k) ==
    IF k > Len(buttonSelectors) THEN NotResolved("structural")
    ELSE LET b == FirstQualifying(d, QueryAll(d, k))
         IN  IF b # 0 THEN [btn |-> b, phase |-> "structural", k |-> k]
             ELSE StructuralFrom(d, k + 1)

\* A resolution that walks the document first and the selectors second.
RECURSIVE DocumentOrderFrom(_, _)
DocumentOrderFrom(d, i) ==
    IF i > Len(d) THEN NotResolved("structural")
    ELSE IF d[i].inViewport /\ ~d[i].disabled
        THEN [btn |-> i, phase |-> "structural", k |-> Min(d[i].sel)]
    ELSE DocumentOrderFrom(d, i + 1)

ResolveInDocumentOrder(d) == DocumentOrderFrom(d, 1)

\* submitBooking, lines 120-133: the structural phase.
ResolveStructural(d) == StructuralFrom(d, 1)

\* submitBooking, line 116.
textBasedSelectors == <<<<"Confirm">>, <<"Book">>, <<"Submit">>>>

ButtonTexts ==
    { <<"Confirm", " ", "Book", "ing">>, <<" ", "BOOK", " ", "now", " ">>,
      <<"Submit">>, <<"Cancel">> }

TextButtonElems == [text : ButtonTexts, disabled : BOOLEAN, rendered : BOOLEAN]

\* A predicate that forgets the disabled check.
TextMatchIgnoringDisabled(el, searchText) ==
    /\ Includes(toLowerCase(Trim(el.text)), toLowerCase(searchText)[1])
    /\ el.rendered

\* The predicate of buttons.find, lines 139-143.
TextMatch(el, searchText) ==
    /\ Includes(toLowerCase(Trim(el.text)), toLowerCase(searchText)[1])
    /\ ~el.disabled
    /\ el.rendered

RECURSIVE FindButton(_, _, _)
FindButton(d, searchText, i) ==
    IF i > Len(d) THEN 0
    ELSE IF TextMatch(d[i], searchText) THEN i
    ELSE FindButton(d, searchText, i + 1)

RECURSIVE TextFrom(_, _)
TextFrom(d, k) ==
    IF k > Len(textBasedSelectors) THEN NotResolved("text")
    ELSE LET b == FindButton(d, textBasedSelectors[k], 1)
         IN  IF b # 0 THEN [btn |-> b, phase |-> "text", k |-> k]
             ELSE TextFrom(d, k + 1)

\* A text phase that takes the first button with any of the keywords.
RECURSIVE AnyKeywordFrom(_, _)
AnyKeywordFrom(d, i) ==
    IF i > Len(d) THEN NotResolved("text")
    ELSE IF \E k \in 1..Len(textBasedSelectors) : TextMatch(d[i], textBasedSelectors[k])
        THEN [btn |-> i, phase |-> "text",
              k |-> Min({k \in 1..Len(textBasedSelectors) :
                           TextMatch(d[i], textBasedSelectors[k])})]
    ELSE AnyKeywordFrom(d, i + 1)

ResolveByAnyKeyword(d) == AnyKeywordFrom(d, 1)

\* submitBooking, lines 135-152: the text phase.
ResolveByText(d) == TextFrom(d, 1)

\* verifyBookingSuccess, lines 251-259.
successMessageText ==
    "Too easy...your booking is in! A confirmation email will hit your inbox shortly."

errorSelectors ==
    <<".alert-danger", ".error-message", ".booking-error", "[class*=error]",
      ".alert", "[role=alert]">>

\* A danger alert is an alert too; the two error classes hold "error".
ErrorKinds == {{1, 5}, {2, 4}, {3, 4}, {6}}

ErrorTexts ==
    { <<>>, <<" ">>, <<" ", "Space is already booked", " ">>,
      <<successMessageText>> }

\* vis: what isIntersectingViewport answers; "detached" makes it reject.
ErrorElems == [sel : ErrorKinds, vis : {"visible", "hidden", "detached"}, text : ErrorTexts]

\* A test that takes any non-empty text for an error.
IsAnyText(text) == text # <<>>

\* The test of line 272 on the trimmed text.
IsErrorText(text) == text # <<>> /\ ~Includes(text, successMessageText)

\* Lines 266-283 over the matches of one selector: a rejected check is
\* caught and the element skipped.
RECURSIVE FirstError(_, _)
FirstError(d, matches) ==
    IF matches = <<>> THEN 0
    ELSE IF d[Head(matches)].vis = "visible" /\ IsErrorText(Trim(d[Head(matches)].text))
        THEN Head(matches)
    ELSE FirstError(d, Tail(matches))

RECURSIVE ErrorFrom(_, _)
ErrorFrom(d, k) ==
    IF k > Len(errorSelectors) THEN [el |-> 0, k |-> 0]
    ELSE LET e == FirstError(d, QueryAll(d, k))
         IN  IF e # 0 THEN [el |-> e, k |-> k] ELSE ErrorFrom(d, k + 1)

\* verifyBookingSuccess, lines 264-285: the element whose text is reported.
ScanForError(d) == ErrorFrom(d, 1)

\* fillBookingForm, lines 66-72 and 84-90: five selectors for each field.
titleSelectors ==
    <<"input[name*=title]", "input[placeholder*=title]", "textarea[name*=title]",
      "#booking-title", ".booking-title input">>

signatureSelectors ==
    <<"input[name*=signature]", "input[placeholder*=signature]",
      "input[placeholder*=initial]", "#signature", ".signature input">>

FieldKinds == {{1}, {2}, {3}, {4}, {5}, {1, 4}}

\* clickable: whether a click on the element succeeds (it rejects on an
\* element that is hidden or detached).
\* An input, textarea or select that no selector of either field matches.
OtherInput == [field |-> "other", sel |-> {}, clickable |-> TRUE]

FieldElems ==
    [field : {"title", "signature"}, sel : FieldKinds, clickable : BOOLEAN]
        \cup {OtherInput}

FieldView(d, field) ==
    [i \in 1..Len(d) |-> [sel |-> IF d[i].field = field THEN d[i].sel ELSE {}]]

\* Lines 74-82 and 92-100: the element of the first selector that matches.
RECURSIVE FieldFrom(_, _)
FieldFrom(v, k) ==
    IF k > 5 THEN 0
    ELSE IF QueryFirst(v, k) # 0 THEN QueryFirst(v, k)
    ELSE FieldFrom(v, k + 1)

\* A match that takes the field's first element in the document, whatever
\* selector matches it.
FieldMatchInDocumentOrder(d, field) ==
    IF \E i \in DOMAIN d : d[i].field = field
    THEN Min({i \in DOMAIN d : d[i].field = field})
    ELSE 0

FieldMatch(d, field) == FieldFrom(FieldView(d, field), 1)

\* handlePostSubmissionDialogs, lines 177-184.
modalSelectors ==
    <<".modal button.btn-success", ".modal button.btn-primary",
      ".popup button[type=submit]", ".dialog .confirm">>

modalTextSelectors == <<<<"OK">>, <<"Confirm">>>>

ModalKinds == {{1}, {2}, {3}, {4}, {1, 2}}

ModalElems == [sel : ModalKinds, inViewport : BOOLEAN]

ModalTexts == { <<"OK">>, <<" ", "Confirm", " ">>, <<"Cancel">> }

ModalTextElems ==
    [text : ModalTexts, disabled : BOOLEAN, rendered : BOOLEAN, inModal : BOOLEAN]

\* Lines 186-197: page.$ gives the first match of a selector only; a match
\* outside the viewport is passed over and the next selector tried.
RECURSIVE ModalFrom(_, _)
ModalFrom(d, k) ==
    IF k > Len(modalSelectors) THEN 0
    ELSE IF QueryFirst(d, k) # 0 /\ d[QueryFirst(d, k)].inViewport THEN QueryFirst(d, k)
    ELSE ModalFrom(d, k + 1)

FindModalButton(d) == ModalFrom(d, 1)

\* Lines 199-216.
ModalTextMatch(el, searchText) ==
    /\ Includes(toLowerCase(Trim(el.text)), toLowerCase(searchText)[1])
    /\ ~el.disabled
    /\ el.rendered
    /\ el.inModal

RECURSIVE FindModalText(_, _, _)
FindModalText(d, searchText, i) ==
    IF i > Len(d) THEN 0
    ELSE IF ModalTextMatch(d[i], searchText) THEN i
    ELSE FindModalText(d, searchText, i + 1)

RECURSIVE ModalTextFrom(_, _)
ModalTextFrom(d, k) ==
    IF k > Len(modalTextSelectors) THEN 0
    ELSE IF FindModalText(d, modalTextSelectors[k], 1) # 0
        THEN FindModalText(d, modalTextSelectors[k], 1)
    ELSE ModalTextFrom(d, k + 1)

FindModalButtonByText(d) == ModalTextFrom(d, 1)

(***************************************************************************)
(* Messages.                                                               *)
(***************************************************************************)
LoginFormNotFound == <<"Login form not found">>

ConfirmButtonNotFound == <<"Confirm booking button not found or not clickable">>

TimeoutError == <<"TimeoutError: waiting failed: timeout exceeded">>

ProtocolError == <<"Protocol error: target closed">>

WriteError == <<"EACCES: permission denied, open 'booking_errors.log'">>

\* Line 273.
ExplicitMessage(text) == <<"Booking failed: ">> \o text

\* A generic message that names the deep link instead of the URL read.
GenericMessageOfDeepLink(url, title) ==
    <<"Booking status unclear. Not on success URL. Current URL: ", bookingUrl,
      ", Page Title: ", title>>

\* Line 293.
GenericMessage(url, title) ==
    <<"Booking status unclear. Not on success URL. Current URL: ", url,
      ", Page Title: ", title>>

\* Lines 223-224: the line written for a message.
LogLine(msg) == <<"<timestamp>", " - ">> \o msg \o <<"\n">>

\* A logErrorToFile that writes nothing.
logErrorToFileSilent(log, msg, writeOk) == [log |-> log, thrown |-> <<>>]

\* A logErrorToFile without its try/catch: the write error escapes.
logErrorToFileUncaught(log, msg, writeOk) ==
    IF writeOk THEN [log |-> Append(log, LogLine(msg)), thrown |-> <<>>]
    ELSE [log |-> log, thrown |-> WriteError]

\* logErrorToFile, lines 219-231: the file after the call and what the call
\* throws (nothing: a failed write is caught and logged to the console).
logErrorToFile(log, msg, writeOk) ==
    IF writeOk THEN [log |-> Append(log, LogLine(msg)), thrown |-> <<>>]
    ELSE [log |-> log, thrown |-> <<>>]

\* A comparison against the configured base URL.
IsConfiguredBaseUrl(url, baseUrl) == url = baseUrl

\* Line 243: currentUrl === targetSuccessUrl.
IsSuccessUrl(url, baseUrl) == url = targetSuccessUrl

\* A guard on the page instead of the browser.
PageIsSet(b, p) == p # "null"

\* close, line 300: if (this.browser).
BrowserIsSet(b, p) == b # "null"

(***************************************************************************)
(* src/booking.js: BookingAutomator.book and the stages it runs.           *)
(***************************************************************************)
\* A stage throws: control goes to the catch of book(), lines 342-358.
\* A failure that is recorded while the attempt goes on to submission.
RaiseAndGoOn(msg, stage) ==
    /\ error' = msg
    /\ failedAt' = stage
    /\ pc' = "submit"

Raise(msg, stage) ==
    /\ error' = msg
    /\ failedAt' = stage
    /\ pc' = "bookCatch"

NoRaise == UNCHANGED <<error, failedAt>>

NoButton == [btn |-> 0, phase |-> "none", k |-> 0]

\* book, lines 317-334: initialize, then the deep link.
Initialize ==
    /\ pc = "book"
    /\ \E outcome \in {"launchRejects", "newPageRejects", "setViewportRejects", "ok"} :
        /\ browser' = IF outcome = "launchRejects" THEN "null" ELSE "browser"
        /\ page' = IF outcome \in {"setViewportRejects", "ok"} THEN "page" ELSE "null"
        /\ did' = IF outcome = "launchRejects" THEN did ELSE Bump("launch")
        /\ pageUrl' = IF page' = "page" THEN "about:blank" ELSE pageUrl
        /\ IF outcome = "ok"
           THEN /\ bookingUrl' =
                       generateBookingUrl(configFile.baseUrl,
                                          configFile.facilities[options.facility].spaceId,
                                          options.date, options.start, options.end)
                /\ bookingTitle' =
                       IF options.title # <<>> THEN options.title
                       ELSE formatBookingTitle(options.start, options.end,
                                               configFile.bufferMinutes,
                                               env.clockChange)
                /\ pc' = "navigate"
                /\ NoRaise
           ELSE /\ Raise(ProtocolError, "initialize")
                /\ UNCHANGED <<bookingUrl, bookingTitle>>
    /\ UNCHANGED <<cliVars, exitCode, isLoggedIn, submitVars, verifyVars>>

\* A navigateAndLogin that logs in whatever the probe found.
LoginRegardless(probe) == "login"

\* Lines 26-32: return when the booking-form probe found an element, call
\* performLogin when it did not.
AfterProbe(probe) == IF probe = "yes" THEN "fill" ELSE "login"

\* navigateAndLogin, lines 22-33, up to the call of performLogin.
NavigateAndLogin ==
    /\ pc = "navigate"
    /\ \E outcome \in {"gotoRejects", "form", "noForm"} :
        /\ did' = Bump("goto")
        /\ IF outcome = "gotoRejects"
           THEN /\ Raise(TimeoutError, "navigate")
                /\ UNCHANGED <<pageUrl, isLoggedIn>>
           ELSE /\ pageUrl' = bookingUrl
                /\ isLoggedIn' = IF outcome = "form" THEN "yes" ELSE "no"
                /\ pc' = AfterProbe(isLoggedIn')
                /\ NoRaise
    /\ UNCHANGED <<cliVars, exitCode, browser, page, bookingUrl, bookingTitle, submitVars,
                   verifyVars>>

\* A login after which the booking-form probe is made again.
PerformLoginThenProbe ==
    /\ pc = "login"
    /\ did' = Bump("type")
    /\ pc' = "navigate"
    /\ NoRaise
    /\ UNCHANGED <<cliVars, exitCode, pageVars, submitVars, verifyVars>>

\* performLogin, lines 35-59.
PerformLogin ==
    /\ pc = "login"
    /\ \E outcome \in {"waitTimeout", "formNotFound", "navigationTimeout", "ok"} :
        /\ did' = IF outcome \in {"navigationTimeout", "ok"} THEN Bump("type") ELSE did
        /\ CASE outcome = "waitTimeout" -> Raise(TimeoutError, "login")
             [] outcome = "formNotFound" -> Raise(LoginFormNotFound, "login")
             [] outcome = "navigationTimeout" -> Raise(TimeoutError, "login")
             [] outcome = "ok" -> pc' = "fill" /\ NoRaise
    /\ UNCHANGED <<cliVars, exitCode, pageVars, submitVars, verifyVars>>

\* fillBookingForm, lines 61-103, over the inputs the page shows: the wait
\* of line 64 times out on a page with no input, textarea or select.
FillBookingForm(D) ==
    /\ pc = "fill"
    /\ \E d \in D :
          LET t == FieldMatch(d, "title")
              s == FieldMatch(d, "signature")
              titleOk == t # 0 /\ d[t].clickable
              signatureOk == s # 0 /\ d[s].clickable
          IN  /\ dom' = d
              /\ IF d = <<>>
                 THEN /\ Raise(TimeoutError, "fill")
                      /\ UNCHANGED did
                 ELSE IF t # 0 /\ ~titleOk
                 THEN /\ Raise(ProtocolError, "fill")
                      /\ UNCHANGED did
                 ELSE /\ did' = [did EXCEPT
                                   !["title"] = @ + (IF titleOk THEN 1 ELSE 0),
                                   !["signature"] = @ + (IF signatureOk THEN 1 ELSE 0)]
                      /\ IF s # 0 /\ ~signatureOk
                         THEN Raise(ProtocolError, "fill")
                         ELSE pc' = "submit" /\ NoRaise
    /\ UNCHANGED <<cliVars, exitCode, pageVars, confirmButton, foundBy, verifyVars>>

\* submitBooking, lines 105-133: the structural phase.
SubmitStructural(D) ==
    /\ pc = "submit"
    /\ \E d \in D :
        LET r == ResolveStructural(d)
        IN  /\ dom' = d
            /\ confirmButton' = r.btn
            /\ foundBy' = r
            /\ pc' = IF r.btn # 0 THEN "click" ELSE "submitText"
    /\ UNCHANGED <<cliVars, exitCode, error, failedAt, pageVars, verifyVars, did>>

\* submitBooking, lines 135-156: the text phase and the not-found error.
SubmitText(D) ==
    /\ pc = "submitText"
    /\ \E d \in D :
        LET r == ResolveByText(d)
        IN  /\ dom' = d
            /\ confirmButton' = r.btn
            /\ foundBy' = r
            /\ IF r.btn # 0
               THEN pc' = "click" /\ NoRaise
               ELSE Raise(ConfirmButtonNotFound, "submit")
    /\ UNCHANGED <<cliVars, exitCode, pageVars, verifyVars, did>>

\* submitBooking, lines 158-169: scroll, the native click, the script click.
\* The button is not read again after the click.
ClickConfirm ==
    /\ pc = "click"
    /\ \E outcome \in {"scrollRejects", "native", "script", "bothReject"} :
        /\ did' = [did EXCEPT
                     !["nativeClick"] = @ + (IF outcome = "scrollRejects" THEN 0 ELSE 1),
                     !["scriptClick"] = @ + (IF outcome \in {"script", "bothReject"} THEN 1 ELSE 0)]
        /\ IF outcome \in {"native", "script"}
           THEN pc' = "dialogs" /\ NoRaise
           ELSE Raise(ProtocolError, "click")
    /\ dom' = <<>>
    /\ confirmButton' = 0
    /\ foundBy' = NoButton
    /\ UNCHANGED <<cliVars, exitCode, pageVars, verifyVars>>

\* A selector probe that does not return after its click.
ProbeTextsRegardless(b) == "dialogTexts"

\* Lines 188-196: the return after the click of a modal button b ends the
\* handling; with no button clicked (b = 0) the text probe is next.
AfterSelectorProbe(b) == IF b = 0 THEN "dialogTexts" ELSE "verify"

\* handlePostSubmissionDialogs, lines 174-197: the modal selectors.
DialogSelectors(D) ==
    /\ pc = "dialogs"
    /\ \E d \in D, clickOk \in BOOLEAN :
        LET b == FindModalButton(d)
        IN  /\ dom' = d
            /\ did' = [did EXCEPT !["dialogs"] = @ + 1,
                                  !["dialogClick"] = @ + (IF b # 0 THEN 1 ELSE 0)]
            /\ IF b = 0 \/ clickOk THEN pc' = AfterSelectorProbe(b) /\ NoRaise
               ELSE Raise(ProtocolError, "dialogs")
    /\ UNCHANGED <<cliVars, exitCode, pageVars, confirmButton, foundBy, verifyVars>>

\* handlePostSubmissionDialogs, lines 199-217: the modal texts.
DialogTexts(D) ==
    /\ pc = "dialogTexts"
    /\ \E d \in D, clickOk \in BOOLEAN :
        LET b == FindModalButtonByText(d)
        IN  /\ dom' = d
            /\ did' = [did EXCEPT !["dialogClick"] = @ + (IF b # 0 THEN 1 ELSE 0)]
            /\ IF b = 0 \/ clickOk THEN pc' = "verify" /\ NoRaise
               ELSE Raise(ProtocolError, "dialogs")
    /\ UNCHANGED <<cliVars, exitCode, pageVars, confirmButton, foundBy, verifyVars>>

\* The URLs the page can be at when the verifier looks.
PageUrls == {targetSuccessUrl, configFile.baseUrl, bookingUrl, loginUrl}

PageTitles == {"Parkhurst - Booking", "Log in"}

\* verifyBookingSuccess, lines 233-249: the delay and the URL test.
VerifyUrl ==
    /\ pc = "verify"
    /\ \E u \in PageUrls :
        /\ pageUrl' = u
        /\ currentUrl' = u
        /\ IF IsSuccessUrl(u, configFile.baseUrl)
           THEN verdict' = "success" /\ pc' = "bookFinally"
           ELSE verdict' = "none" /\ pc' = "verifyScan"
    /\ did' = Bump("verify")
    /\ dom' = <<>>
    /\ UNCHANGED <<cliVars, exitCode, error, failedAt, browser, page, bookingUrl,
                   bookingTitle, isLoggedIn, confirmButton, foundBy, errorMessage, pageTitle, errorLog>>

\* verifyBookingSuccess, lines 251-294: the scan of the error selectors and
\* the message for what it found.
VerifyScan(D) ==
    /\ pc = "verifyScan"
    /\ \E d \in D, title \in PageTitles :
        LET r == ScanForError(d)
        IN  /\ dom' = d
            /\ IF r.el # 0
               THEN /\ errorMessage' = ExplicitMessage(Trim(d[r.el].text))
                    /\ verdict' = "explicit"
                    /\ UNCHANGED pageTitle
               ELSE /\ errorMessage' = GenericMessage(currentUrl, title)
                    /\ verdict' = "ambiguous"
                    /\ pageTitle' = title
    /\ pc' = "verifyLog"
    /\ UNCHANGED <<cliVars, exitCode, error, failedAt, pageVars, confirmButton,
                   foundBy, currentUrl, errorLog, did>>

\* The call of logErrorToFile, lines 275 and 295.
VerifyLog ==
    /\ pc = "verifyLog"
    /\ \E writeOk \in BOOLEAN :
        LET r == logErrorToFile(errorLog, errorMessage, writeOk)
        IN  /\ errorLog' = r.log
            /\ did' = [did EXCEPT !["append"] = @ + 1,
                                  !["appendFailed"] = @ + (IF writeOk THEN 0 ELSE 1)]
            /\ IF r.thrown # <<>>
               THEN Raise(r.thrown, "verify")
               ELSE pc' = "verifyThrow" /\ NoRaise
    /\ dom' = <<>>
    /\ UNCHANGED <<cliVars, exitCode, pageVars, confirmButton, foundBy, currentUrl,
                   errorMessage, pageTitle, verdict>>

\* The throw of lines 288 and 296.
VerifyThrow ==
    /\ pc = "verifyThrow"
    /\ Raise(errorMessage, "verify")
    /\ UNCHANGED <<cliVars, exitCode, pageVars, submitVars, verifyVars, did>>

\* The catch of book(), lines 342-358: the page's URL and title are read
\* for the console inside a try of their own, then the error is rethrown.
BookCatch ==
    /\ pc = "bookCatch"
    /\ \E titleRejects \in BOOLEAN :
        /\ pc' = "bookFinally"
        /\ dom' = <<>>
        /\ confirmButton' = 0
        /\ foundBy' = NoButton
    /\ UNCHANGED <<cliVars, exitCode, error, failedAt, pageVars, verifyVars, did>>

\* A finally in which browser.close() neither returns nor rejects.
BookFinallyAwaitsForever ==
    /\ pc = "bookFinally"
    /\ UNCHANGED vars

\* The finally of book(), lines 359-361, and close(), lines 299-304: a
\* rejecting browser.close() is thrown from the finally in place of
\* whatever book() was about to return or throw.
BookFinally ==
    /\ pc = "bookFinally"
    /\ \E closeOk \in BOOLEAN :
        /\ IF BrowserIsSet(browser, page)
           THEN /\ did' = Bump("close")
                /\ IF closeOk THEN NoRaise
                   ELSE error' = ProtocolError /\ failedAt' = "close"
           ELSE UNCHANGED <<did, error, failedAt>>
        /\ pc' = IF error' # <<>> THEN "commandCatch" ELSE "bookReturned"
    /\ UNCHANGED <<cliVars, exitCode, pageVars, submitVars, verifyVars>>

(***************************************************************************)
(* The runs of the `book` command.                                         *)
(***************************************************************************)
GoodOptions ==
    [facility |-> "tennis_lower",
     date |-> <<"2", "0", "2", "5", "-", "0", "6", "-", "1", "5">>,
     bookInAdvanceDays |-> NotGiven,
     start |-> <<"1", "2", ":", "0", "0">>,
     end |-> <<"1", "3", ":", "0", "0">>,
     profile |-> NoProfile,
     title |-> <<>>,
     forceDate |-> FALSE]

\* One request that passes every check, and one for each way of failing one.
FlowOptions ==
    { GoodOptions,
      [GoodOptions EXCEPT !.date = <<"2", "0", "2", "5", "-", "0", "6", "-", "0", "1">>],
      [GoodOptions EXCEPT !.date = <<"1", "5", "/", "0", "6", "/", "2", "0", "2", "5">>],
      [GoodOptions EXCEPT !.bookInAdvanceDays = Value(<<"3">>)],
      [GoodOptions EXCEPT !.date = NoDate, !.bookInAdvanceDays = Value(<<"a", "b", "c">>)],
      [GoodOptions EXCEPT !.start = <<"1", "3", ":", "0", "0">>,
                          !.end = <<"1", "2", ":", "0", "0">>],
      [GoodOptions EXCEPT !.start = <<"2", "5", ":", "0", "0">>],
      [GoodOptions EXCEPT !.facility = "pool"],
      [GoodOptions EXCEPT !.profile = <<"j", "a", "n", "e">>],
      [GoodOptions EXCEPT !.profile = <<"b", "o", "b", "@", "e", "x", ".", "c", "o">>] }

GoodConfig(baseUrl) ==
    [present |-> TRUE, sections |-> TRUE, baseUrl |-> baseUrl,
     credentials |-> [email |-> "your-email@example.com", password |-> "your-password"],
     bookInAdvanceDays |-> Undefined, bufferMinutes |-> Defined(15),
     facilities |-> Facilities]

FlowConfigs ==
    { GoodConfig(targetSuccessUrl), GoodConfig(otherBaseUrl),
      [GoodConfig(targetSuccessUrl) EXCEPT !.present = FALSE],
      [GoodConfig(targetSuccessUrl) EXCEPT !.sections = FALSE] }

\* 10 June 2025, in a zone that is not ahead of UTC, on a day without a
\* change of the clocks.
FlowEnv == [today |-> NewDate(2025, 5, 10), aheadOfUtc |-> FALSE, clockChange |-> "none"]

\* The state in which the command's action is entered with some options.
Start(opts, file, e) ==
    /\ pc = "executeBooking"
    /\ options = opts
    /\ configFile = file
    /\ env = e
    /\ console = <<>>
    /\ exitCode = -1
    /\ error = <<>>
    /\ failedAt = "none"
    /\ browser = "null"
    /\ page = "null"
    /\ bookingUrl = ""
    /\ bookingTitle = <<>>
    /\ pageUrl = ""
    /\ isLoggedIn = "unprobed"
    /\ dom = <<>>
    /\ confirmButton = 0
    /\ foundBy = NoButton
    /\ currentUrl = ""
    /\ errorMessage = <<>>
    /\ pageTitle = ""
    /\ verdict = "none"
    /\ errorLog = <<>>
    /\ did = [k \in Effects |-> 0]

Init == \E opts \in FlowOptions, file \in FlowConfigs : Start(opts, file, FlowEnv)

\* The pages of the whole-flow runs: of every kind of element, the ones
\* matched by the first and by a later selector of its list.
FlowFields == SeqsUpTo({e \in FieldElems : e.sel \in {{}, {1}, {5}}}, FlowElems)

FlowButtons == SeqsUpTo({e \in ButtonElems : e.sel \in {{1, 2, 4}, {3}}}, FlowElems)

FlowTextButtons ==
    SeqsUpTo({e \in TextButtonElems : e.text \in {<<"Confirm", " ", "Book", "ing">>, <<"Cancel">>}},
             FlowElems)

FlowModals == SeqsUpTo({e \in ModalElems : e.sel \in {{1}, {4}}}, FlowElems)

FlowModalTexts ==
    SeqsUpTo({e \in ModalTextElems : e.text \in {<<"OK">>, <<"Cancel">>}}, FlowElems)

FlowErrors == SeqsUpTo({e \in ErrorElems : e.sel \in {{1, 5}, {6}}}, FlowElems)

Next ==
    \/ LoadConfig
    \/ ResolveDate
    \/ ValidateParams
    \/ Initialize
    \/ NavigateAndLogin
    \/ PerformLogin
    \/ FillBookingForm(FlowFields)
    \/ SubmitStructural(FlowButtons)
    \/ SubmitText(FlowTextButtons)
    \/ ClickConfirm
    \/ DialogSelectors(FlowModals)
    \/ DialogTexts(FlowModalTexts)
    \/ VerifyUrl
    \/ VerifyScan(FlowErrors)
    \/ VerifyLog
    \/ VerifyThrow
    \/ BookCatch
    \/ BookFinally
    \/ CommandCatch
    \/ CommandReturns

Spec == Init /\ [][Next]_vars

\* The command as one flow of awaited calls, each of which returns or
\* rejects: a step that can be taken is taken.
FairSpec == Spec /\ WF_vars(Next)

(***************************************************************************)
(* The scans on their own, over every page of up to MaxElems elements,     *)
(* each started from a state in which the flow reaches it.                 *)
(***************************************************************************)
GoodUrl ==
    generateBookingUrl(targetSuccessUrl, Facilities["tennis_lower"].spaceId,
                       GoodOptions.date, GoodOptions.start, GoodOptions.end)

\* book() has opened the page on the deep link, found the form and on it
\* an input that is neither field, and is at pc.
ReachedWith(at, effects, found) ==
    /\ pc = at
    /\ options = GoodOptions
    /\ configFile = GoodConfig(targetSuccessUrl)
    /\ env = FlowEnv
    /\ console = BookingSummary(GoodOptions, GoodConfig(targetSuccessUrl))
    /\ exitCode = -1
    /\ error = <<>>
    /\ failedAt = "none"
    /\ browser = "browser"
    /\ page = "page"
    /\ bookingUrl = GoodUrl
    /\ bookingTitle = <<"1", "1", ":", "4", "5", "AM", " - ", "1", ":", "1", "5", "PM">>
    /\ pageUrl = GoodUrl
    /\ isLoggedIn = "yes"
    /\ dom = IF at = "submit" THEN <<OtherInput>> ELSE <<>>
    /\ confirmButton = 0
    /\ foundBy = found
    /\ currentUrl = IF at = "verifyScan" THEN GoodUrl ELSE ""
    /\ errorMessage = <<>>
    /\ pageTitle = ""
    /\ verdict = "none"
    /\ errorLog = <<>>
    /\ did = [k \in Effects |-> IF k \in effects THEN 1 ELSE 0]

Reached(at, effects) == ReachedWith(at, effects, NoButton)

AtSubmit == Reached("submit", {"launch", "goto"})

AtFill == Reached("fill", {"launch", "goto"})

AtVerifyScan ==
    Reached("verifyScan", {"launch", "goto", "nativeClick", "dialogs", "verify"})

SpecButtons == AtSubmit /\ [][SubmitStructural(SeqsUpTo(ButtonElems, MaxElems))]_vars

SpecErrors == AtVerifyScan /\ [][VerifyScan(SeqsUpTo(ErrorElems, MaxElems))]_vars

SpecFields == AtFill /\ [][FillBookingForm(SeqsUpTo(FieldElems, MaxElems))]_vars

\* The two phases of submitBooking: the structural phase over the pages of
\* the flow, the text phase over every page of up to MaxElems buttons.
SpecTexts ==
    AtSubmit /\ [][\/ SubmitStructural(FlowButtons)
                   \/ SubmitText(SeqsUpTo(TextButtonElems, MaxElems))]_vars

(***************************************************************************)
(* The resolution of the booking date on its own, up to the call of        *)
(* book(): every way of asking for a date, dates that no calendar holds    *)
(* among them, with and without a number of                                *)
(* days in the configuration, on days at the end of a month, of a leap     *)
(* February and of a year, in zones ahead of UTC and not.                  *)
(***************************************************************************)
DateOptions ==
    { [GoodOptions EXCEPT !.date = d, !.bookInAdvanceDays = a, !.forceDate = f] :
        d \in {NoDate, GoodOptions.date,
               <<"2", "0", "2", "5", "-", "0", "6", "-", "3", "1">>,
               <<"2", "0", "2", "5", "-", "1", "3", "-", "0", "5">>},
        a \in {NotGiven, Flag, Value(<<"0">>), Value(<<"3">>), Value(<<"2", "0">>),
               Value(<<"a", "b", "c">>), Value(<<"-", "1">>)},
        f \in BOOLEAN }

DateConfigs ==
    { [GoodConfig(targetSuccessUrl) EXCEPT !.bookInAdvanceDays = n] :
        n \in {Undefined, Defined(10), Defined(0)} }

DateEnvs ==
    [today : {NewDate(2025, 5, 10), NewDate(2024, 1, 28), NewDate(2025, 11, 25),
              NewDate(2025, 5, 16)},
     aheadOfUtc : BOOLEAN, clockChange : {"none"}]

SpecDates ==
    /\ \E opts \in DateOptions, file \in DateConfigs, e \in DateEnvs : Start(opts, file, e)
    /\ [][LoadConfig \/ ResolveDate \/ ValidateParams]_vars

(***************************************************************************)
(* The building of the deep link on its own: the command up to the launch  *)
(* of the browser, over space ids, dates and times of several forms.       *)
(***************************************************************************)
SpaceIds ==
    { <<"1", "2", "4", "4", "4", "6", "6">>, <<"7">>, <<"1", "2", " ", "4">>,
      <<"a", "&", "b", "=", "1">>, <<"c", "/", "d">> }

UrlOptions ==
    { [GoodOptions EXCEPT !.date = d, !.start = t[1], !.end = t[2]] :
        d \in { GoodOptions.date, <<"2", "0", "2", "5", "-", "1", "2", "-", "3", "1">> },
        t \in { <<GoodOptions.start, GoodOptions.end>>,
                <<<<"0", "9", ":", "3", "0">>, <<"1", "7", ":", "4", "5">>>>,
                <<<<"0", "0", ":", "0", "0">>, <<"2", "3", ":", "5", "9">>>> } }

UrlConfigs ==
    { [GoodConfig(u) EXCEPT !.facilities.tennis_lower.spaceId = id] :
        u \in {targetSuccessUrl, otherBaseUrl}, id \in SpaceIds }

SpecUrl ==
    /\ \E opts \in UrlOptions, file \in UrlConfigs : Start(opts, file, FlowEnv)
    /\ [][LoadConfig \/ ResolveDate \/ ValidateParams \/ Initialize]_vars

(***************************************************************************)
(* The building of the title on its own: the command up to the launch of   *)
(* the browser, over times around midnight, noon and 02:00, buffers from   *)
(* none to more than a day, and days with and without a change of clocks.  *)
(***************************************************************************)
TitleOptions ==
    { [GoodOptions EXCEPT !.start = t[1], !.end = t[2]] :
        t \in { <<GoodOptions.start, GoodOptions.end>>,
                <<<<"0", "0", ":", "1", "0">>, <<"0", "1", ":", "0", "0">>>>,
                <<<<"0", "0", ":", "0", "0">>, <<"2", "3", ":", "5", "9">>>>,
                <<<<"0", "1", ":", "3", "0">>, <<"0", "2", ":", "1", "0">>>>,
                <<<<"0", "2", ":", "3", "0">>, <<"0", "3", ":", "1", "0">>>>,
                <<<<"0", "9", ":", "0", "5">>, <<"1", "1", ":", "5", "0">>>>,
                <<<<"1", "1", ":", "5", "0">>, <<"2", "3", ":", "5", "0">>>> } }

TitleConfigs ==
    { [GoodConfig(targetSuccessUrl) EXCEPT !.bufferMinutes = b] :
        b \in {Undefined, Defined(0), Defined(10), Defined(15), Defined(60),
               Defined(1445)} }

TitleEnvs == { [FlowEnv EXCEPT !.clockChange = c] : c \in {"none", "forward", "back"} }

SpecTitle ==
    /\ \E opts \in TitleOptions, file \in TitleConfigs, e \in TitleEnvs :
            Start(opts, file, e)
    /\ [][LoadConfig \/ ResolveDate \/ ValidateParams \/ Initialize]_vars

(***************************************************************************)
(* The lookup of a profile's credentials on its own: the command up to     *)
(* the call of book(), over profiles with and without punctuation other    *)
(* than "@" and ".", with and without their variables in the environment.  *)
(***************************************************************************)
ProfileOptions ==
    { [o EXCEPT !.profile = p] :
        o \in UrlOptions,
        p \in { NoProfile,
                <<"j", "a", "n", "e">>,
                <<"j", "o", "@", "e", "x", ".", "c", "o">>,
                <<"J", "o", "@", "E", "x", ".", "c", "o">>,
                <<"b", "o", "b", "@", "e", "x", ".", "c", "o">>,
                <<"a", "n", "@", "e", "x", ".", "c", "o">>,
                <<"a", "-", "b", "@", "e", "x", ".", "c", "o">>,
                <<"a", "+", "b", "@", "e", "x", ".", "c", "o">>,
                <<"a", "_", "b", "@", "e", "x", ".", "c", "o">>,
                <<"j", "o", "@", "e", "x", "-", "c", "o">>,
                <<"j", "o", " ", "e", "x", "@", "c", "o">> } }

SpecProfiles ==
    /\ \E opts \in ProfileOptions : Start(opts, GoodConfig(targetSuccessUrl), FlowEnv)
    /\ [][LoadConfig \/ ResolveDate \/ ValidateParams]_vars

\* Spec violates each of these: the flow reaches the states the scans start
\* from.
NotAtFill == ~AtFill

NotAtSubmit == ~AtSubmit

NotAtVerifyScan == ~AtVerifyScan

(***************************************************************************)
(* Properties.                                                             *)
(***************************************************************************)
Range(f) == {f[i] : i \in DOMAIN f}

\* book() has returned or thrown.
AfterBook == {"bookReturned", "commandCatch", "exited"}

\* verifyBookingSuccess has classified a failure and not yet thrown.
InVerifier == {"verifyScan", "verifyLog", "verifyThrow"}

\* C1: whichever stage of book() fails, or none, a browser that was launched
\* has had close() called on it exactly once by the time book() returns or
\* throws; it is never closed more often than launched, nor launched twice.
C1_BrowserClosedOnce ==
    /\ did["close"] <= did["launch"]
    /\ did["launch"] <= 1
    /\ pc \in AfterBook => did["close"] = did["launch"]

\* The page could not be opened after the launch, and the browser was closed.
C1_Witness ==
    /\ pc = "commandCatch"
    /\ failedAt = "initialize"
    /\ page = "null"
    /\ did["launch"] = 1
    /\ did["close"] = 1

\* C2: once the verifier has read the URL, the attempt is classified as a
\* success exactly when that URL is 'https://parkhurst.skedda.com/booking';
\* for any other URL, the deep link and the configured base URL included,
\* the verifier goes on to throw its failure and book() never returns.
C2_SuccessIffLiteralUrl ==
    did["verify"] = 1 =>
        /\ verdict = "success" <=> currentUrl = "https://parkhurst.skedda.com/booking"
        /\ currentUrl # "https://parkhurst.skedda.com/booking" =>
              /\ pc \in InVerifier \cup {"bookCatch", "bookFinally", "commandCatch", "exited"}
              /\ pc \in {"bookCatch", "bookFinally"} =>
                    /\ failedAt = "verify"
                    /\ error # <<>>
                    /\ error = errorMessage

\* The page stayed on the deep link, the success URL with a query string.
C2_Witness ==
    /\ pc = "bookCatch"
    /\ failedAt = "verify"
    /\ configFile.baseUrl = targetSuccessUrl
    /\ currentUrl = bookingUrl
    /\ currentUrl # targetSuccessUrl
    /\ verdict \in {"explicit", "ambiguous"}

\* C3: the book command ends with exit code 0 exactly when the verifier
\* classified the attempt as a success, and with 1 otherwise.
C3_ExitZeroIffSuccess ==
    pc = "exited" => /\ exitCode \in {0, 1}
                     /\ exitCode = 0 <=> verdict = "success"

\* C4 as stated: verification leaves exactly one line in the failure log
\* when it classifies a failure, and none when it classifies a success.
C4_ExactlyOneLine ==
    pc \in {"verifyThrow", "bookFinally"} /\ did["verify"] = 1 =>
        Len(errorLog) = IF verdict = "success" THEN 0 ELSE 1

\* C4: verification attempts exactly one append to the failure log when it
\* classifies a failure, before the error is raised, and none when it
\* classifies a success; the log gains the line of the message when the
\* write succeeds and nothing when it fails.
C4_OneAppendAttempt ==
    /\ did["append"] <= 1
    /\ Len(errorLog) = did["append"] - did["appendFailed"]
    /\ verdict = "success" => did["append"] = 0
    /\ did["verify"] = 0 \/ pc \in {"verifyScan", "verifyLog"} => did["append"] = 0
    /\ pc = "verifyThrow" \/ failedAt = "verify" =>
          /\ verdict \in {"explicit", "ambiguous"}
          /\ did["append"] = 1
          /\ errorLog = IF did["appendFailed"] = 1 THEN <<>>
                        ELSE <<LogLine(errorMessage)>>

\* The line is in the log and the error is about to be thrown.
C4_Witness ==
    /\ pc = "verifyThrow"
    /\ verdict = "explicit"
    /\ error = <<>>
    /\ errorLog = <<LogLine(errorMessage)>>

\* Of the elements `good` of a page, the first in selector order and then
\* in document order; 0 if there is none.
FirstBySelector(d, good) ==
    IF good = {} THEN 0
    ELSE LET k == Min(UNION {d[i].sel : i \in good})
         IN  Min({i \in good : k \in d[i].sel})

\* The elements that are visible and have non-empty trimmed text.
VisibleWithText(d) ==
    {i \in DOMAIN d : d[i].vis = "visible" /\ Trim(d[i].text) # <<>>}

\* Those of them whose text does not contain the site's success message.
VisibleWithErrorText(d) ==
    {i \in VisibleWithText(d) :
        "Too easy...your booking is in! A confirmation email will hit your inbox shortly."
            \notin Range(Trim(d[i].text))}

C7_WriteFailureDoesNotMask ==
    did["appendFailed"] = 1 =>
        /\ errorMessage # <<>>
        /\ error # WriteError
        /\ \/ pc = "verifyThrow" /\ error = <<>>
           \/ pc \in {"bookCatch", "bookFinally"} /\ failedAt = "verify" /\ error = errorMessage
           \/ pc \in {"commandCatch", "exited"} /\ failedAt = "verify" /\ error = errorMessage
           \/ pc \in {"commandCatch", "exited"} /\ failedAt = "close"

\* The write failed and the explicit failure reached the catch of book().
C7_Witness ==
    /\ pc = "bookCatch"
    /\ did["appendFailed"] = 1
    /\ errorLog = <<>>
    /\ verdict = "explicit"
    /\ error = errorMessage

\* C8: every failed booking attempt, whatever the error, has appended a
\* line to booking_errors.log by the time the command exits.
C8_EveryFailureLogged ==
    pc = "exited" /\ exitCode = 1 /\ did["goto"] = 1 /\ did["appendFailed"] = 0 =>
        Len(errorLog) >= 1

\* The buttons the text phase can take: rendered, enabled, and with one of
\* the keywords in their trimmed text, letter case ignored.
TextCandidates(d) ==
    {i \in DOMAIN d :
        /\ d[i].rendered
        /\ ~d[i].disabled
        /\ Range(toLowerCase(Trim(d[i].text))) \cap {"confirm", "book", "submit"} # {}}

\* C9: the text phase is entered only when the structural phase found no
\* button within the viewport and enabled; when the text phase finds no
\* rendered, enabled button either, submitBooking throws the
\* confirm-button-not-found error, and an attempt that ended with that error
\* dispatched no click, handled no dialog and never ran the verifier.
C9_NotFoundStopsAttempt ==
    /\ pc = "submitText" =>
          /\ confirmButton = 0
          /\ \A i \in DOMAIN dom : ~dom[i].inViewport \/ dom[i].disabled
    /\ pc = "click" /\ foundBy.phase = "text" => confirmButton \in TextCandidates(dom)
    /\ pc = "bookCatch" /\ failedAt = "submit" =>
          /\ TextCandidates(dom) = {}
          /\ error = <<"Confirm booking button not found or not clickable">>
    /\ error = <<"Confirm booking button not found or not clickable">> =>
          /\ did["nativeClick"] = 0
          /\ did["scriptClick"] = 0
          /\ did["dialogs"] = 0
          /\ did["dialogClick"] = 0
          /\ did["verify"] = 0
          /\ verdict = "none"

\* The only button with a keyword is disabled, and the error is thrown.
C9_Witness ==
    /\ pc = "bookCatch"
    /\ failedAt = "submit"
    /\ Len(dom) = 1
    /\ dom[1].text = <<"Confirm", " ", "Book", "ing">>
    /\ dom[1].disabled
    /\ dom[1].rendered
    /\ error = ConfirmButtonNotFound

\* The buttons the structural phase can take.
Qualifying(d) == {i \in DOMAIN d : d[i].inViewport /\ ~d[i].disabled}

\* C10: the structural phase chooses, among the matches of the earliest
\* selector that has an element within the viewport and not disabled, the
\* first such element in document order; it finds nothing exactly when no
\* matched element qualifies.
C10_EarliestSelectorFirst ==
    pc \in {"click", "submitText"} /\ foundBy.phase = "structural" =>
        LET b == FirstBySelector(dom, Qualifying(dom))
        IN  /\ confirmButton = b
            /\ pc = "click" <=> b # 0
            /\ b # 0 => /\ foundBy.k = Min(UNION {dom[i].sel : i \in Qualifying(dom)})
                        /\ \A i \in Qualifying(dom) : \A k \in dom[i].sel : k >= foundBy.k

\* A qualifying generic submit button comes first in the document, and the
\* wrapper-scoped success button after it is chosen.
C10_Witness ==
    /\ pc = "click"
    /\ Len(dom) = 2
    /\ dom[1] = [sel |-> {4}, inViewport |-> TRUE, disabled |-> FALSE]
    /\ dom[2].sel = {1, 2, 4}
    /\ confirmButton = 2
    /\ foundBy.k = 1

\* The rendered, enabled buttons whose trimmed text holds a keyword, letter
\* case ignored.
KeywordMatches(d, keyword) ==
    {i \in DOMAIN d :
        /\ d[i].rendered
        /\ ~d[i].disabled
        /\ keyword \in Range(toLowerCase(Trim(d[i].text)))}

\* C11: the text phase is entered only with no button chosen and no button
\* of the structural page within the viewport and enabled; it takes a
\* rendered, enabled button whose text holds 'confirm', else one whose text
\* holds 'book', else one whose text holds 'submit' (the first in document
\* order for that keyword), and throws when there is none for any keyword.
C11_KeywordPriority ==
    /\ pc = "submitText" =>
          /\ confirmButton = 0
          /\ foundBy = [btn |-> 0, phase |-> "structural", k |-> 0]
          /\ \A i \in DOMAIN dom : ~dom[i].inViewport \/ dom[i].disabled
    /\ foundBy.phase = "text" =>
          LET hit == {k \in 1..3 : KeywordMatches(dom, <<"confirm", "book", "submit">>[k]) # {}}
          IN  IF hit = {}
              THEN pc = "bookCatch" /\ confirmButton = 0
              ELSE /\ pc = "click"
                   /\ foundBy.k = Min(hit)
                   /\ confirmButton =
                         Min(KeywordMatches(dom, <<"confirm", "book", "submit">>[Min(hit)]))

\* A button reading ' BOOK now ' comes first in the document, and the
\* 'Confirm Booking' button after it is taken.
C11_Witness ==
    /\ pc = "click"
    /\ foundBy = [btn |-> 2, phase |-> "text", k |-> 1]
    /\ Len(dom) = 2
    /\ dom[1] = [text |-> <<" ", "BOOK", " ", "now", " ">>, disabled |-> FALSE, rendered |-> TRUE]
    /\ dom[2].text = <<"Confirm", " ", "Book", "ing">>
    /\ confirmButton = 2

\* C12: the script click is attempted only after the native click was; when
\* the click fails, neither dialog handling nor the verifier runs; when a
\* click went through, dialog handling and then the verifier have both run
\* by the time the attempt ends.
C12_ClickThenDialogsThenVerify ==
    /\ did["scriptClick"] <= did["nativeClick"]
    /\ did["nativeClick"] <= 1
    /\ did["verify"] <= did["dialogs"]
    /\ did["dialogs"] <= did["nativeClick"]
    /\ pc = "bookCatch" /\ failedAt = "click" => did["dialogs"] = 0 /\ did["verify"] = 0
    /\ pc = "bookCatch" /\ did["nativeClick"] = 1 /\ failedAt # "click" =>
          did["dialogs"] = 1 /\ did["verify"] = 1

\* C13: dialog handling runs at most once in an attempt and clicks at most
\* one control: the text probe is reached only when the selector probe
\* clicked nothing, and after either probe's click the verifier is next.
C13_AtMostOneDialogClick ==
    /\ did["dialogs"] <= 1
    /\ did["dialogClick"] <= did["dialogs"]
    /\ pc = "dialogTexts" => did["dialogClick"] = 0

\* A modal button was clicked by its selector and the verifier is next.
C13_Witness ==
    /\ pc = "verify"
    /\ did["dialogs"] = 1
    /\ did["dialogClick"] = 1
    /\ Len(dom) = 1
    /\ dom[1] = [sel |-> {1}, inViewport |-> TRUE]

\* C14: credentials are typed only in an attempt whose booking-form probe
\* found no element; when the probe found one, performLogin is not entered,
\* nothing is typed and no login error arises in that attempt.
C14_LoginOnlyWithoutForm ==
    /\ did["type"] <= 1
    /\ did["type"] = 1 \/ pc = "login" \/ failedAt = "login" => isLoggedIn = "no"
    /\ isLoggedIn = "yes" => did["type"] = 0 /\ pc # "login"
    /\ isLoggedIn # "unprobed" => did["goto"] = 1

\* The probe found the form and the attempt went on to the fill.
C14_Witness ==
    /\ pc = "fill"
    /\ isLoggedIn = "yes"
    /\ did["goto"] = 1
    /\ did["type"] = 0

\* C15: when the login inputs are not found, the attempt fails with the
\* login-form-not-found error, and in that attempt nothing is typed, no
\* field is filled, nothing is clicked and the verifier does not run.
C15_LoginFormNotFound ==
    failedAt = "login" /\ did["type"] = 0 =>
        /\ error = <<"Login form not found">>
        /\ did["title"] = 0
        /\ did["signature"] = 0
        /\ did["nativeClick"] = 0
        /\ did["scriptClick"] = 0
        /\ did["dialogClick"] = 0
        /\ did["verify"] = 0

\* The element page.$ gives for a field: of the earliest selector of the
\* field's list that matches anything, the first match in the document.
FieldTarget(d, field) == FirstBySelector(d, {i \in DOMAIN d : d[i].field = field})

\* What fillBookingForm has done to a field of the page d once it is over:
\* nothing when the field has no target, one write when it has one.
FilledAsTargeted(d) ==
    /\ did["title"] = IF FieldTarget(d, "title") # 0 THEN 1 ELSE 0
    /\ did["signature"] = IF FieldTarget(d, "signature") # 0 THEN 1 ELSE 0

\* The click on the target of a field rejects.
TargetRejects(d, field) ==
    FieldTarget(d, field) # 0 /\ ~d[FieldTarget(d, field)].clickable

DateNumber(y, m, d) == 10000 * y + 100 * m + d

\* The ways the request of the command fails validation: a date that is
\* not of the shape YYYY-MM-DD, a date before today without --force-date, a
\* time that is not a time of day HH:MM, a start that is not before the
\* end, a facility key that the configuration does not hold.
MalformedDate(o) == o.date # NoDate /\ ~DateShape(o.date)

PastDate(o, today) ==
    /\ o.date # NoDate
    /\ DateShape(o.date)
    /\ ~o.forceDate
    /\ DateNumber(DigitsVal(SubSeq(o.date, 1, 4)), DigitsVal(SubSeq(o.date, 6, 7)),
                  DigitsVal(SubSeq(o.date, 9, 10)))
          < DateNumber(Civil(today).y, Civil(today).m, Civil(today).d)

MalformedTime(t) ==
    ~ /\ Len(t) = 5
      /\ t[3] = ":"
      /\ \A i \in {1, 2, 4, 5} : t[i] \in Range(Digits)
      /\ 10 * DigitVal(t[1]) + DigitVal(t[2]) < 24
      /\ 10 * DigitVal(t[4]) + DigitVal(t[5]) < 60

StartNotBeforeEnd(o) ==
    /\ ~MalformedTime(o.start)
    /\ ~MalformedTime(o.end)
    /\ \E i \in 1..5 : /\ \A j \in 1..(i - 1) : o.start[j] = o.end[j]
                       /\ o.start[i] # o.end[i]
                       /\ DigitVal(o.start[i]) > DigitVal(o.end[i])
       \/ o.start = o.end

FailsValidation(o, today) ==
    \/ MalformedDate(o)
    \/ PastDate(o, today)
    \/ MalformedTime(o.start)
    \/ MalformedTime(o.end)
    \/ StartNotBeforeEnd(o)
    \/ o.facility \notin {"tennis_lower"}

\* C17: a request that fails validation never gets as far as book(): no
\* browser is launched, no browser call is made, nothing is written to the
\* failure log, and the command exits with code 1.
C17_RejectedBeforeBrowser ==
    FailsValidation(options, env.today) =>
        /\ pc \in {"executeBooking", "resolveDate", "validate", "commandCatch", "exited"}
        /\ \A k \in Effects : did[k] = 0
        /\ browser = "null"
        /\ page = "null"
        /\ errorLog = <<>>
        /\ pc = "exited" => exitCode = 1

\* The request with the end before the start has been rejected.
C17_Witness ==
    /\ pc = "exited"
    /\ exitCode = 1
    /\ failedAt = "validation"
    /\ options.start = <<"1", "3", ":", "0", "0">>
    /\ options.end = <<"1", "2", ":", "0", "0">>
    /\ error = <<"Start time must be before end time">>
    /\ did["launch"] = 0

\* Both --date and --book-in-advance-days were supplied.
BothSupplied(o) == o.date # NoDate /\ o.bookInAdvanceDays.kind # "undefined"

\* A step taken on a request with both options before its date is resolved.
RejectsBothSupplied ==
    pc \in {"executeBooking", "resolveDate"} /\ BothSupplied(options) =>
        /\ options' = options
        /\ did' = did
        /\ browser' = "null"
        /\ bookingUrl' = ""
        /\ pc' \in {"resolveDate", "commandCatch", "exited"}
        /\ pc = "resolveDate" => pc' = "exited" /\ exitCode' = 1 /\ failedAt' = "date"

\* C18: a request with both --date and --book-in-advance-days, once its
\* configuration is loaded, is rejected with exit code 1 in the next step:
\* the options are left as supplied, no booking URL is built and no browser
\* is launched.
C18_MutuallyExclusive == [][RejectsBothSupplied]_vars

\* The request with a date and three days in advance has been rejected.
C18_Witness ==
    /\ pc = "exited"
    /\ exitCode = 1
    /\ failedAt = "date"
    /\ options.date = <<"2", "0", "2", "5", "-", "0", "6", "-", "1", "5">>
    /\ options.bookInAdvanceDays = [kind |-> "value", s |-> <<"3">>]
    /\ bookingUrl = ""
    /\ did["launch"] = 0

\* The number of days the code is to add to today for a request without
\* --date: the value of --book-in-advance-days when it has one, else the
\* configuration's bookInAdvanceDays when that is a number, else 15.
DaysAhead(o, file) ==
    IF o.bookInAdvanceDays.kind = "value" THEN DigitsVal(o.bookInAdvanceDays.s)
    ELSE IF file.bookInAdvanceDays.def THEN file.bookInAdvanceDays.val
    ELSE 15

\* The calendar date of local day n, written YYYY-MM-DD.
LocalDateString(n) ==
    LET c == Civil(n)
    IN  <<DigitChar(c.y \div 1000), DigitChar((c.y \div 100) % 10),
          DigitChar((c.y \div 10) % 10), DigitChar(c.y % 10), "-",
          DigitChar(c.m \div 10), DigitChar(c.m % 10), "-",
          DigitChar(c.d \div 10), DigitChar(c.d % 10)>>

\* A step that resolves the date of a request without --date.
ResolvesToLocalDate ==
    pc = "resolveDate" /\ options.date = NoDate /\ pc' = "validate" =>
        options'.date = LocalDateString(env.today + DaysAhead(options, configFile))

\* C19: the date string resolved for a request without --date is the local
\* calendar date of today + N days, in every time zone.
C19_TodayPlusDays == [][ResolvesToLocalDate]_vars

\* The characters that percent-encoding leaves as they are.
Unreserved ==
    Range(Digits) \cup {"a", "b", "c", "d", "T", "-", "_", ".", "!", "~", "*", "'", "(", ")"}

\* The percent-encoding of a value: every character that is not unreserved
\* becomes '%' and its code.
PercentEncoded(s) ==
    [i \in 1..Len(s) |->
        IF s[i] \in Unreserved THEN s[i]
        ELSE CASE s[i] = ":" -> "%3A"
               [] s[i] = " " -> "%20"
               [] s[i] = "&" -> "%26"
               [] s[i] = "=" -> "%3D"
               [] s[i] = "/" -> "%2F"]

\* C20: the deep link is baseUrl + '?nbend=' + enc(date 'T' end ':00') +
\* '&nbspaces=' + enc(spaceId) + '&nbstart=' + enc(date 'T' start ':00')
\* with all three values percent-encoded; for space id 1244466 on
\* 2025-06-15 from 12:00 to 13:00 it is the URL of the example.
C20_UrlAllEncoded ==
    bookingUrl # "" =>
        LET id == configFile.facilities[options.facility].spaceId
        IN  /\ bookingUrl =
                  configFile.baseUrl
                  \o "?nbend=" \o Str(PercentEncoded(options.date \o <<"T">> \o options.end \o <<":", "0", "0">>))
                  \o "&nbspaces=" \o Str(PercentEncoded(id))
                  \o "&nbstart=" \o Str(PercentEncoded(options.date \o <<"T">> \o options.start \o <<":", "0", "0">>))
            /\ /\ configFile.baseUrl = "https://parkhurst.skedda.com/booking"
               /\ Str(id) = "1244466"
               /\ Str(options.date) = "2025-06-15"
               /\ Str(options.start) = "12:00"
               /\ Str(options.end) = "13:00"
               => bookingUrl = "https://parkhurst.skedda.com/booking?nbend=2025-06-15T13%3A00%3A00&nbspaces=1244466&nbstart=2025-06-15T12%3A00%3A00"

\* The rendering the title is said to have: minutes of day on a 12-hour
\* clock, the hour without a leading zero, 0 and 12 shown as 12.
ClockFace(minutes) ==
    LET hour == minutes \div 60
        shown == IF hour \in {0, 12} THEN 12 ELSE hour % 12
    IN  Str((IF shown < 10 THEN <<DigitChar(shown)>> ELSE Pad2(shown))
            \o <<":">> \o Pad2(minutes % 60))
        \o (IF hour < 12 THEN "AM" ELSE "PM")

BufferOf(file) == IF file.bufferMinutes.def THEN file.bufferMinutes.val ELSE 15

\* C21: the title built for valid times and a buffer of no less than zero
\* is fmt((start - buffer) mod 1440) - fmt((end + buffer) mod 1440), on every
\* day, days on which the clocks change included.
C21_TitleWrapsModulo1440 ==
    bookingTitle # <<>> =>
        Str(bookingTitle) =
            ClockFace((MinutesOfDay(options.start) - BufferOf(configFile)) % 1440)
                \o " - "
                \o ClockFace((MinutesOfDay(options.end) + BufferOf(configFile)) % 1440)

\* C21 on days whose clocks do not change.
C21_TitleOnSteadyDays == env.clockChange = "none" => C21_TitleWrapsModulo1440

\* A title is built on a day whose clocks go forward, for a start at 02:30,
\* an end at 03:10 and the buffer of 15 minutes.
C21_Witness ==
    /\ env.clockChange = "forward"
    /\ options.start = <<"0", "2", ":", "3", "0">>
    /\ options.end = <<"0", "3", ":", "1", "0">>
    /\ configFile.bufferMinutes = Defined(15)
    /\ bookingTitle # <<>>

\* The capital of a letter, the letter itself when it is one already.
Capitals ==
    { <<"a", "A">>, <<"b", "B">>, <<"c", "C">>, <<"e", "E">>, <<"j", "J">>,
      <<"n", "N">>, <<"o", "O">>, <<"x", "X">> }

Capital(c) == IF \E q \in Capitals : q[1] = c THEN (CHOOSE q \in Capitals : q[1] = c)[2] ELSE c

IsAlphanumeric(c) == IsDigit(c) \/ \E q \in Capitals : c \in {q[1], q[2]}

\* The email with "@" and "." replaced by "_", in capitals.
AtAndDotReplaced(email) ==
    [i \in 1..Len(email) |-> IF email[i] \in {"@", "."} THEN "_" ELSE Capital(email[i])]

\* The email with every non-alphanumeric character replaced by "_", in
\* capitals.
NonAlphanumericReplaced(email) ==
    [i \in 1..Len(email) |-> IF IsAlphanumeric(email[i]) THEN Capital(email[i]) ELSE "_"]

EndsWith(t, suffix) ==
    Len(t) >= Len(suffix) /\ SubSeq(t, Len(t) - Len(suffix) + 1, Len(t)) = suffix

\* Once the configuration of a request with a profile is loaded, the
\* variables looked up were PROFILE_<key>_USERNAME and PROFILE_<key>_PASSWORD:
\* the request failed naming the first of them that is not set, or went on
\* with both set.
LookedUpUnder(key) ==
    pc # "executeBooking" /\ options.profile # NoProfile =>
        LET usernameKey == <<"PROFILE_">> \o key \o <<"_USERNAME">>
            passwordKey == <<"PROFILE_">> \o key \o <<"_PASSWORD">>
        IN  \/ /\ failedAt = "config"
               /\ usernameKey \notin ProcessEnv
               /\ EndsWith(error, usernameKey)
            \/ /\ failedAt = "config"
               /\ usernameKey \in ProcessEnv
               /\ passwordKey \notin ProcessEnv
               /\ EndsWith(error, passwordKey)
            \/ /\ failedAt # "config"
               /\ usernameKey \in ProcessEnv
               /\ passwordKey \in ProcessEnv

\* C22 as stated: the key of a profile is its email with every
\* non-alphanumeric character replaced by "_", in capitals, for every email.
C22_KeyReplacesNonAlphanumerics == LookedUpUnder(NonAlphanumericReplaced(options.profile))

\* C22, amended: the key of a profile is its email with every "@" and "."
\* replaced by "_", in capitals; every other character stays as it is.
C22_KeyReplacesAtAndDot == LookedUpUnder(AtAndDotReplaced(options.profile))

\* A profile with a "-": the variable asked for keeps the "-", and the
\* variables set under the key with "_" are not found.
C22_Witness ==
    /\ options.profile = <<"a", "-", "b", "@", "e", "x", ".", "c", "o">>
    /\ failedAt = "config"
    /\ EndsWith(error, <<"PROFILE_", "A", "-", "B", "_", "E", "X", "_", "C", "O", "_USERNAME">>)
    /\ <<"PROFILE_", "A", "_", "B", "_", "E", "X", "_", "C", "O", "_USERNAME">> \in ProcessEnv

\* The page holds an element of the field on which a click succeeds: one
\* that is visible and attached.
HasUsable(d, field) == \E i \in DOMAIN d : d[i].field = field /\ d[i].clickable

\* C23, for the two field lists: once fillBookingForm has run on a page
\* with an input, a field with a visible match is written, whatever hidden
\* matches the page holds before it; a hidden match is never acted upon and
\* never stops the attempt.
C23_HiddenMatchNeverBlocks ==
    pc # "fill" /\ dom # <<>> =>
        \A field \in {"title", "signature"} :
            HasUsable(dom, field) => did[field] = 1 /\ failedAt # "fill"

\* A page whose first title input is hidden and whose second one is
\* visible: the click on the first has rejected and nothing was written.
C23_Witness ==
    /\ Len(dom) = 2
    /\ dom[1] = [field |-> "title", sel |-> {1}, clickable |-> FALSE]
    /\ dom[2] = [field |-> "title", sel |-> {1}, clickable |-> TRUE]
    /\ failedAt = "fill"
    /\ did["title"] = 0

\* A step taken while an error is in flight: it types nothing, clicks
\* nothing, handles no dialog, verifies nothing and writes no log line; it
\* is the catch of book(), its finally, or the command's catch and exit.
OnlyCleansUp ==
    error # <<>> =>
        /\ \A k \in Effects \ {"close"} : did'[k] = did[k]
        /\ errorLog' = errorLog
        /\ pc \in {"bookCatch", "bookFinally", "commandCatch"}
        /\ pc' \in {"bookFinally", "commandCatch", "exited"}

\* C24: within one attempt no stage runs twice, and from the step in which
\* a stage raises or a wait times out the only operations are the reading
\* of the page's URL and title and the closing of the browser.
C24_FailureEndsAttempt ==
    /\ [](\A k \in Effects : did[k] <= 1)
    /\ [][OnlyCleansUp]_vars

\* The wait for the form's inputs has timed out after a login, and the
\* command has ended: the browser was closed, nothing was written, clicked
\* or verified.
C24_Witness ==
    /\ pc = "exited"
    /\ failedAt = "fill"
    /\ error = TimeoutError
    /\ did["type"] = 1
    /\ did["close"] = 1
    /\ \A k \in {"title", "signature", "nativeClick", "scriptClick", "dialogs", "verify"} :
            did[k] = 0

\* The text holds the value as one of its parts.
Shows(lines, value) == \E i \in DOMAIN lines : value \in Range(lines[i])

\* C25: neither the login email nor the login password is written to the
\* console or to the failure log.
C25_CredentialsNeverWritten ==
    \A secret \in { Credentials(configFile, options.profile).email,
                     Credentials(configFile, options.profile).password } :
        ~Shows(console, secret) /\ ~Shows(errorLog, secret)

\* The same for the password alone.
C25_PasswordNeverWritten ==
    /\ ~Shows(console, Credentials(configFile, options.profile).password)
    /\ ~Shows(errorLog, Credentials(configFile, options.profile).password)

\* A request that passed every check: the Booking Summary is on the
\* console, and its first line shows the login email.
C25_Witness ==
    /\ pc = "book"
    /\ options.profile = NoProfile
    /\ console[1] = <<"Email: ", "your-email@example.com">>

\* The booking-form probe is made by navigateAndLogin alone, and a stage
\* that returns is followed by the next one: performLogin by
\* fillBookingForm, fillBookingForm by submitBooking.
ProceedsUnprobed ==
    /\ pc # "navigate" => isLoggedIn' = isLoggedIn
    /\ pc = "login" /\ error' = <<>> => pc' = "fill"
    /\ pc = "fill" /\ error' = <<>> => pc' = "submit"

\* C26: after performLogin's navigation wait the flow goes on to
\* fillBookingForm and submitBooking and the booking-form probe is not made
\* again.
C26_NoProbeAfterLogin == [][ProceedsUnprobed]_vars

\* The probe found no booking form, the login was typed, the page then
\* showed an input but neither field of the form, and the confirm-button
\* resolution found a button, which was clicked.
C26_Witness ==
    /\ pc = "dialogs"
    /\ isLoggedIn = "no"
    /\ did["type"] = 1
    /\ did["title"] = 0
    /\ did["signature"] = 0
    /\ did["nativeClick"] = 1

\* C27: every run of the command comes to its end, and so does the run of
\* book() in it, returning or throwing; by then close() was called on the
\* browser that was launched.
C27_BookTerminates == <>(pc = "exited" /\ did["close"] = did["launch"])

\* book() has run through every stage, the verifier has thrown, and the
\* command has exited with the browser closed.
C27_Witness ==
    /\ pc = "exited"
    /\ failedAt = "verify"
    /\ did["dialogs"] = 1
    /\ did["verify"] = 1
    /\ did["close"] = 1

\* A step that resolves the date of a request with a --date that is a
\* calendar date and is not rejected as past.
KeepsDateAsGiven ==
    pc = "resolveDate" /\ options.date # NoDate /\ isValidDate(options.date)
        /\ pc' = "validate"
        => options'.date = options.date

\* C28: a real calendar date given with --date and not rejected is the
\* date passed on to book(), unchanged, in every time zone.
C28_DateUnchanged == [][KeepsDateAsGiven]_vars

\* --date 2025-06-15 was given in a zone ahead of UTC, and the request
\* goes on with 2025-06-14.
C28_Witness ==
    /\ env.aheadOfUtc
    /\ options.bookInAdvanceDays = NotGiven
    /\ pc = "book"
    /\ options.date = <<"2", "0", "2", "5", "-", "0", "6", "-", "1", "4">>

\* A step that resolves the date of a request whose --date has the shape
\* YYYY-MM-DD and is no calendar date.
RejectsUnrealDate ==
    pc = "resolveDate" /\ options.date # NoDate /\ DateShape(options.date)
        /\ ~isValidDate(options.date)
        => pc' = "exited" /\ exitCode' = 1 /\ options' = options

\* C30: a --date of the shape YYYY-MM-DD that is no calendar date is
\* rejected; it is not replaced by another date with which the request
\* goes on.
C30_UnrealDateRejected == [][RejectsUnrealDate]_vars

\* --date 2025-06-31 was given, and the request goes on to book() with
\* 2025-07-01.
C30_Witness ==
    /\ ~env.aheadOfUtc
    /\ options.bookInAdvanceDays = NotGiven
    /\ pc = "book"
    /\ options.date = <<"2", "0", "2", "5", "-", "0", "7", "-", "0", "1">>

\* The cleanup of book() after a stage has failed: the catch and the
\* finally leave the error in flight as the stage raised it.
CleanupKeepsError ==
    pc \in {"bookCatch", "bookFinally"} /\ error # <<>> =>
        error' = error /\ failedAt' = failedAt

\* C29: the error book() raises to its caller after a stage has failed is
\* the error of that stage, whatever the reading of the page's URL and
\* title and the closing of the browser do.
C29_StageErrorSurvivesCleanup == [][CleanupKeepsError]_vars

\* The attempt failed before its verification, browser.close() then
\* rejected, and the command's catch holds the error of close().
C29_Witness ==
    /\ pc = "commandCatch"
    /\ did["goto"] = 1
    /\ did["verify"] = 0
    /\ did["close"] = 1
    /\ failedAt = "close"
    /\ error = ProtocolError
====
